---------------------------- MODULE Spec2Model ----------------------------
(***************************************************************************)
(* Model of installer.py: download two ZIP archives, validate and extract  *)
(* them in a temporary directory, move the .jar files found at the top of  *)
(* each extracted tree into the LabyMod modpack directories, and register  *)
(* the pack in modpacks.json.                                              *)
(*                                                                         *)
(* File and pack names are sequences of one-character strings, so that     *)
(* str.endswith and the substring test of Python's `in` are computed.      *)
(***************************************************************************)
EXTENDS Integers, Sequences, FiniteSets, TLC

VARIABLES
    pc,          \* position of main()
    baseExists,  \* base_path.exists()
    modpacksDir, \* the directory base_path/modpacks exists
    modsDest,    \* the directory modpack_path
    addonsDest,  \* the directory addons_path
    manifest,    \* the file modpacks_file
    tempExists,  \* the directory temp_dir exists
    tempCreated, \* history: tempfile.mkdtemp() was called
    tmp,         \* contents of temp_dir
    responses,   \* history: what requests.get returned for each URL
    outcome,     \* what main() printed last: success, failure, aborted
    failedAt,    \* history: the stage whose exception main() caught
    log,         \* history: the stages main() has started, in order
    init0,       \* history: the filesystem under base_path before the run
    src,         \* move_jar_files called alone: source_folder
    dst,         \* move_jar_files called alone: destination_folder
    mv,          \* move_jar_files called alone: the last call
    call,        \* update_modpacks_json called alone: the last call
    calls        \* update_modpacks_json called alone: number of calls so far

mainVars == <<pc, baseExists, tempExists, tempCreated, tmp, responses, outcome,
              failedAt, log, init0, modsDest, addonsDest>>
moveVars == <<src, dst, mv>>
updateVars == <<call, calls>>
vars == <<mainVars, moveVars, updateVars, modpacksDir, manifest>>

---------------------------------------------------------------------------
(* Bounds of the model.                                                    *)

\* Largest number of entries of a served archive, and of children of a
\* source folder handed to move_jar_files.
MaxEntries == 2

\* Number of successive calls of update_modpacks_json.
MaxCalls == 2

---------------------------------------------------------------------------
(* Names.                                                                  *)

FooJar == <<"f","o","o",".","j","a","r">>
BarJar == <<"b","a","r",".","j","a","r">>
UpperJar == <<"F","O","O",".","J","A","R">>
Readme == <<"r","e","a","d","m","e",".","t","x","t">>
ModsDir == <<"m","o","d","s">>

JarSuffix == <<".","j","a","r">>

\* str.endswith
EndsWith(s, suf) ==
    /\ Len(s) >= Len(suf)
    /\ SubSeq(s, Len(s) - Len(suf) + 1, Len(s)) = suf

\* Python's `needle in haystack` for two str values: a substring test.
IsSubstring(needle, hay) ==
    \E i \in 0..(Len(hay) - Len(needle)) :
        SubSeq(hay, i + 1, i + Len(needle)) = needle

---------------------------------------------------------------------------
(* Finite maps.                                                            *)

EmptyMap == [x \in {} |-> x]

Put(f, k, v) == [x \in (DOMAIN f) \cup {k} |-> IF x = k THEN v ELSE f[x]]

Remove(f, k) == [x \in (DOMAIN f) \ {k} |-> f[x]]

---------------------------------------------------------------------------
(* Directories.  files maps the name of each regular file that is an       *)
(* immediate child to its content; dirs maps the name of each              *)
(* subdirectory to the files it holds.  A content is the tag of where the  *)
(* bytes came from.                                                        *)

NoDir == [exists |-> FALSE, files |-> EmptyMap, dirs |-> EmptyMap]

EmptyDir == [exists |-> TRUE, files |-> EmptyMap, dirs |-> EmptyMap]

\* os.listdir
ListDir(d) == (DOMAIN d.files) \cup (DOMAIN d.dirs)

\* os.makedirs(path, exist_ok=True)
MakeDirs(d) == IF d.exists THEN d ELSE EmptyDir

---------------------------------------------------------------------------
(* Archives and the two servers.                                           *)

\* A downloaded body: a ZIP container (kind "zip") with its entries, each a
\* relative path, or anything else.  intact is FALSE when the central
\* directory reads but a member's data does not (bad CRC).
NotZip(origin) ==
    [kind |-> "other", entries |-> {}, intact |-> FALSE, data |-> origin]

Zip(origin, entries, intact) ==
    [kind |-> "zip", entries |-> entries, intact |-> intact, data |-> origin]

NoFile == [kind |-> "absent", entries |-> {}, intact |-> FALSE, data |-> "none"]

EntryPool == {<<FooJar>>, <<BarJar>>, <<ModsDir, FooJar>>, <<Readme>>}

Archives(origin) ==
    {Zip(origin, E, TRUE) : E \in {X \in SUBSET EntryPool : Cardinality(X) <= MaxEntries}}
        \cup {Zip(origin, {<<FooJar>>}, FALSE), NotZip(origin)}

NoResponse == [status |-> "none", body |-> NoFile]

\* What requests.get(url, stream=True) can give: a success with its body, a
\* 404 with an error page, no connection, or a success whose stream breaks
\* off (body: the bytes received until then, a truncated file).
Responses(origin) ==
    {[status |-> "ok", body |-> b] : b \in Archives(origin)}
        \cup {[status |-> "http404", body |-> NotZip(origin)],
              [status |-> "neterr", body |-> NoFile],
              [status |-> "broken", body |-> NotZip(origin)]}

\* download_file: the file at dest_path afterwards, and whether it raised.
\* requests.get raises on a transport failure, raise_for_status on a status
\* that is not a success; open(dest_path, "wb") happens after both, and
\* iter_content raises when the stream breaks off.
DownloadFile(resp, file) ==
    IF resp.status = "ok" THEN [raised |-> FALSE, file |-> resp.body]
    ELSE IF resp.status = "broken" THEN [raised |-> TRUE, file |-> resp.body]
    ELSE [raised |-> TRUE, file |-> file]

\* is_valid_zip: zipfile.ZipFile(path) reads the central directory only; any
\* exception (a missing file too) gives False.
IsValidZip(file) == file.kind = "zip"

\* The tree under extract_folder after zip_ref.extract of every entry.
Extracted(folder, zip) ==
    LET top == {p \in zip.entries : Len(p) = 1}
        sub == {p \in zip.entries : Len(p) = 2}
        subNames == {p[1] : p \in sub} \cup DOMAIN folder.dirs
    IN [exists |-> TRUE,
        files |-> [n \in (DOMAIN folder.files) \cup {p[1] : p \in top} |->
                      IF <<n>> \in top THEN zip.data ELSE folder.files[n]],
        dirs |-> [d \in subNames |->
                      LET old == IF d \in DOMAIN folder.dirs
                                 THEN folder.dirs[d] ELSE EmptyMap
                          new == {p[2] : p \in {q \in sub : q[1] = d}}
                      IN [n \in (DOMAIN old) \cup new |->
                             IF n \in new THEN zip.data ELSE old[n]]]]

\* extract_zip: re-validates, then extracts entry by entry; a member whose
\* data is damaged raises BadZipFile from zip_ref.extract, at the end of the
\* member's data, when the file has been written.
ExtractZip(file, folder) ==
    IF ~IsValidZip(file) THEN [raised |-> TRUE, folder |-> folder]
    ELSE IF ~file.intact
    THEN [raised |-> TRUE,
          folder |-> Extracted(folder, Zip("damaged", file.entries, FALSE))]
    ELSE [raised |-> FALSE, folder |-> Extracted(folder, file)]

---------------------------------------------------------------------------
(* move_jar_files.                                                         *)

\* Variant: the listing is not filtered by suffix.
JarFilesNoFilter(d) == ListDir(d)

\* Variant: the suffix is matched without regard to case.
JarFilesAnyCase(d) ==
    {n \in ListDir(d) :
        EndsWith(n, JarSuffix) \/ EndsWith(n, <<".","J","A","R">>)}

\* [file for file in os.listdir(source_folder) if file.endswith(".jar")]
JarFiles(d) == {n \in ListDir(d) : EndsWith(n, JarSuffix)}

\* All orders in which os.listdir may return the names of S.
Orders(S) ==
    {o \in [1..Cardinality(S) -> S] : \A i, j \in DOMAIN o : o[i] = o[j] => i = j}

\* The directory without its child n.
Without(d, n) ==
    [exists |-> d.exists,
     files |-> IF n \in DOMAIN d.files THEN Remove(d.files, n) ELSE d.files,
     dirs |-> IF n \in DOMAIN d.dirs THEN Remove(d.dirs, n) ELSE d.dirs]

\* The directory `to` with the child n of `from` added under the same name.
WithChild(to, from, n) ==
    [exists |-> to.exists,
     files |-> IF n \in DOMAIN from.files
               THEN Put(to.files, n, from.files[n]) ELSE to.files,
     dirs |-> IF n \in DOMAIN from.dirs
              THEN Put(to.dirs, n, from.dirs[n]) ELSE to.dirs]

\* shutil.move(os.path.join(source_folder, jar_file), destination_folder):
\* the destination is a directory, so the target is destination/jar_file,
\* and shutil.move raises shutil.Error when that path already exists.
MoveRaises(to, n) == n \in ListDir(to)

\* The loop over jar_files, in the order given; it stops at the first
\* shutil.move that raises.
RECURSIVE MoveEach(_, _, _)
MoveEach(order, from, to) ==
    IF order = <<>>
    THEN [raised |-> FALSE, exc |-> "none", src |-> from, dst |-> to]
    ELSE IF MoveRaises(to, Head(order))
    THEN [raised |-> TRUE, exc |-> "Error", src |-> from, dst |-> to]
    ELSE MoveEach(Tail(order), Without(from, Head(order)),
                  WithChild(to, from, Head(order)))

\* move_jar_files: every result the call can have (one per listing order).
MoveJarFiles(from, to) ==
    IF ~from.exists
    THEN {[raised |-> TRUE, exc |-> "FileNotFoundError", src |-> from, dst |-> to]}
    ELSE IF JarFiles(from) = {}
    THEN {[raised |-> FALSE, exc |-> "none", src |-> from, dst |-> to]}
    ELSE {MoveEach(o, from, MakeDirs(to)) : o \in Orders(JarFiles(from))}

---------------------------------------------------------------------------
(* modpacks.json.                                                          *)

ModpackKey == <<"c","h","r","i","s","t","m","a","s","2","0","2","4">>
OtherKey == <<"o","t","h","e","r">>

ModpackName == "Christmas 2024"
ModLoader == "fabric"
Version == "1.21.1"

PackRecord(name, loader, version) ==
    [name |-> name, version |-> version, modLoader |-> loader]

\* The value stored under "packs": a JSON object (map), array (elems),
\* string (chars) or number.
PacksObject(m) == [t |-> "object", map |-> m, elems |-> <<>>, chars |-> <<>>]
PacksArray(e) == [t |-> "array", map |-> EmptyMap, elems |-> e, chars |-> <<>>]
PacksString(c) == [t |-> "string", map |-> EmptyMap, elems |-> <<>>, chars |-> c]
PacksNumber == [t |-> "number", map |-> EmptyMap, elems |-> <<>>, chars |-> <<>>]
NoPacks == [t |-> "none", map |-> EmptyMap, elems |-> <<>>, chars |-> <<>>]

\* A JSON document: an object with its members, or a value of another type.
ObjectDoc(members) == [t |-> "object", members |-> members]
OtherDoc(t) == [t |-> t, members |-> EmptyMap]

\* modpacks_data = {"packs": {}}
DefaultDoc == ObjectDoc([k \in {"packs"} |-> PacksObject(EmptyMap)])

\* The file: absent, bytes that are not UTF-8, text that is not JSON, or a
\* JSON document in some layout.
Absent == [kind |-> "absent", doc |-> OtherDoc("none"), fmt |-> "none"]
NotUtf8 == [kind |-> "bytes", doc |-> OtherDoc("none"), fmt |-> "none"]
NotJson == [kind |-> "text", doc |-> OtherDoc("none"), fmt |-> "none"]
JsonFile(doc, fmt) == [kind |-> "json", doc |-> doc, fmt |-> fmt]

\* open(modpacks_file, "r", encoding="utf-8") and json.load(f): the read
\* decodes the bytes first, then the text is parsed.
JsonLoad(file) ==
    IF file.kind = "bytes" THEN [exc |-> "UnicodeDecodeError", doc |-> OtherDoc("none")]
    ELSE IF file.kind = "text" THEN [exc |-> "JSONDecodeError", doc |-> OtherDoc("none")]
    ELSE [exc |-> "none", doc |-> file.doc]

\* json.dump(modpacks_data, f, indent=4)
JsonDump(doc) == JsonFile(doc, "indent4")

\* Lines 88-94: the document the function works on.  Only JSONDecodeError is
\* caught by the inner try.
LoadManifest(file) ==
    IF file.kind = "absent" THEN [exc |-> "none", doc |-> DefaultDoc]
    ELSE IF JsonLoad(file).exc = "JSONDecodeError"
    THEN [exc |-> "none", doc |-> DefaultDoc]
    ELSE JsonLoad(file)

\* Variant: modpacks_data.get("packs", {}) on anything that has no "packs".
LookupPacksDefault(doc) ==
    IF doc.t # "object" \/ "packs" \notin DOMAIN doc.members
    THEN [exc |-> "none", packs |-> PacksObject(EmptyMap)]
    ELSE [exc |-> "none", packs |-> doc.members["packs"]]

\* modpacks_data["packs"]
LookupPacks(doc) ==
    IF doc.t # "object" THEN [exc |-> "TypeError", packs |-> NoPacks]
    ELSE IF "packs" \notin DOMAIN doc.members THEN [exc |-> "KeyError", packs |-> NoPacks]
    ELSE [exc |-> "none", packs |-> doc.members["packs"]]

\* Variant: the membership test is lost, the key is never found.
ContainsNever(packs, key) ==
    IF packs.t \in {"object", "array", "string"}
    THEN [exc |-> "none", found |-> FALSE]
    ELSE [exc |-> "TypeError", found |-> FALSE]

\* modpack_key in modpacks_data["packs"]
Contains(packs, key) ==
    IF packs.t = "object" THEN [exc |-> "none", found |-> key \in DOMAIN packs.map]
    ELSE IF packs.t = "array"
    THEN [exc |-> "none", found |-> \E i \in DOMAIN packs.elems : packs.elems[i] = key]
    ELSE IF packs.t = "string"
    THEN [exc |-> "none", found |-> IsSubstring(key, packs.chars)]
    ELSE [exc |-> "TypeError", found |-> FALSE]

\* modpacks_data["packs"][modpack_key] = {...}
SetItem(packs, key, rec) ==
    IF packs.t = "object"
    THEN [exc |-> "none", packs |-> PacksObject(Put(packs.map, key, rec))]
    ELSE [exc |-> "TypeError", packs |-> packs]

\* Lines 95-103: insert the record unless the key is there.
Upsert(packs, key, rec) ==
    IF Contains(packs, key).exc # "none"
    THEN [exc |-> Contains(packs, key).exc, packs |-> packs, branch |-> "none"]
    ELSE IF Contains(packs, key).found
    THEN [exc |-> "none", packs |-> packs, branch |-> "exists"]
    ELSE [exc |-> SetItem(packs, key, rec).exc,
          packs |-> SetItem(packs, key, rec).packs,
          branch |-> IF SetItem(packs, key, rec).exc = "none" THEN "added" ELSE "none"]

\* Lines 104-105: open(modpacks_file, "w") needs the parent directory.
WriteManifest(file, dirExists, doc) ==
    IF ~dirExists THEN [exc |-> "FileNotFoundError", file |-> file]
    ELSE [exc |-> "none", file |-> JsonDump(doc)]

\* update_modpacks_json: the exception it re-raises ("none" when it returns),
\* the file afterwards and the branch it reported.
UpdateModpacksJson(file, dirExists, key, name, loader, version) ==
    LET loaded == LoadManifest(file)
        looked == LookupPacks(loaded.doc)
        ups == Upsert(looked.packs, key, PackRecord(name, loader, version))
        doc == ObjectDoc(Put(loaded.doc.members, "packs", ups.packs))
        wr == WriteManifest(file, dirExists, doc)
    IN  IF loaded.exc # "none"
        THEN [exc |-> loaded.exc, file |-> file, branch |-> "none"]
        ELSE IF looked.exc # "none"
        THEN [exc |-> looked.exc, file |-> file, branch |-> "none"]
        ELSE IF ups.exc # "none"
        THEN [exc |-> ups.exc, file |-> file, branch |-> "none"]
        ELSE [exc |-> wr.exc, file |-> wr.file, branch |-> ups.branch]

---------------------------------------------------------------------------
(* The states modpacks.json and the destination directories start in.      *)

OtherName == "Other Pack"
OtherLoader == "forge"
OtherVersion == "1.20.4"

Records ==
    {PackRecord(ModpackName, ModLoader, Version),
     PackRecord(OtherName, OtherLoader, OtherVersion)}

Mappings == UNION {[K -> Records] : K \in SUBSET {ModpackKey, OtherKey}}

PacksValues ==
    {PacksObject(m) : m \in Mappings}
        \cup {PacksArray(<<>>), PacksArray(<<ModpackKey>>),
              PacksString(<<"x">> \o ModpackKey \o <<"y">>),
              PacksString(<<"a","b","c">>), PacksNumber}

Docs ==
    {ObjectDoc([k \in {"packs"} |-> v]) : v \in PacksValues}
        \cup {ObjectDoc(EmptyMap), OtherDoc("array"), OtherDoc("number")}

ManifestStates ==
    {Absent, NotUtf8, NotJson}
        \cup {JsonFile(d, f) : d \in Docs, f \in {"indent4", "compact"}}

DestStates ==
    {NoDir, EmptyDir,
     [exists |-> TRUE, files |-> [n \in {FooJar} |-> "old"], dirs |-> EmptyMap]}

---------------------------------------------------------------------------
(* main().                                                                 *)

Stages ==
    <<"FetchModpack", "ValidateModpack", "ExtractModpack", "RelocateModpack",
      "FetchAddons", "ValidateAddons", "ExtractAddons", "RelocateAddons",
      "UpdateManifest">>

EmptyTmp ==
    [modpackZip |-> NoFile, addonsZip |-> NoFile,
     modpackFolder |-> NoDir, addonsFolder |-> NoDir]

NoMove == [done |-> FALSE, raised |-> FALSE, exc |-> "none", src |-> NoDir, dst |-> NoDir]

NoCall ==
    [done |-> FALSE, key |-> <<>>, rec |-> PackRecord("", "", ""),
     before |-> Absent, dirExists |-> FALSE, exc |-> "none", branch |-> "none"]

\* Variant: the check of base_path is skipped.
PrerequisiteSkipped(base) == TRUE

\* if not base_path.exists(): ... return
PrerequisiteOk(base) == base

\* Variant: update_modpacks_json is called right after the modpack jars are
\* moved, before the addons pipeline.
StageAfterEarlyUpdate(stage) ==
    IF stage = "MkTemp" THEN Stages[1]
    ELSE IF stage = "UpdateManifest" THEN "Cleanup"
    ELSE IF stage = "RelocateModpack" THEN "UpdateManifest"
    ELSE Stages[(CHOOSE i \in DOMAIN Stages : Stages[i] = stage) + 1]

\* The statement of the try block that follows a stage.
StageAfter(stage) ==
    IF stage = "MkTemp" THEN Stages[1]
    ELSE IF stage = "UpdateManifest" THEN "Cleanup"
    ELSE Stages[(CHOOSE i \in DOMAIN Stages : Stages[i] = stage) + 1]

\* Variant: a stage reports its error and does not re-raise it.
NextPcSwallowed(ok, stage) == StageAfter(stage)

\* try / except Exception / finally: an exception raised by a stage skips
\* the rest of the try block.
NextPc(ok, stage) == IF ok THEN StageAfter(stage) ELSE "Cleanup"

\* Variant: the removal sits at the end of the try block, not in finally.
RemoveTempOnSuccess(exists, out) == IF out = "failure" THEN exists ELSE FALSE

\* finally: if os.path.exists(temp_dir): shutil.rmtree(temp_dir)
RemoveTemp(exists, out) == FALSE

\* What every stage of the try block does to main()'s bookkeeping.
Step(stage, ok) ==
    /\ log' = Append(log, stage)
    /\ pc' = NextPc(ok, stage)
    /\ failedAt' = IF ok THEN failedAt ELSE stage
    /\ outcome' = IF ~ok THEN "failure"
                  ELSE IF stage = "UpdateManifest" THEN "success"
                  ELSE outcome

InitMain ==
    /\ pc = "CheckPrerequisite"
    /\ baseExists \in BOOLEAN
    /\ modpacksDir \in BOOLEAN
    /\ modsDest \in DestStates
    /\ addonsDest \in DestStates
    /\ manifest \in ManifestStates
    /\ modpacksDir => baseExists
    /\ (modsDest.exists \/ addonsDest.exists \/ manifest.kind # "absent") => modpacksDir
    /\ tempExists = FALSE
    /\ tempCreated = FALSE
    /\ tmp = EmptyTmp
    /\ responses = [modpack |-> NoResponse, addons |-> NoResponse]
    /\ outcome = "none"
    /\ failedAt = "none"
    /\ log = <<>>
    /\ init0 = [modpacksDir |-> modpacksDir, modsDest |-> modsDest,
                addonsDest |-> addonsDest, manifest |-> manifest]
    /\ src = NoDir /\ dst = NoDir /\ mv = NoMove
    /\ call = NoCall /\ calls = 0

CheckPrerequisite ==
    /\ pc = "CheckPrerequisite"
    /\ IF PrerequisiteOk(baseExists)
       THEN pc' = "MkTemp" /\ outcome' = outcome
       ELSE pc' = "Exit" /\ outcome' = "aborted"
    /\ UNCHANGED <<baseExists, tempExists, tempCreated, tmp, responses, failedAt,
                   log, init0, modsDest, addonsDest, modpacksDir, manifest>>
    /\ UNCHANGED <<moveVars, updateVars>>

MkTemp ==
    /\ pc = "MkTemp"
    /\ tempExists' = TRUE
    /\ tempCreated' = TRUE
    /\ pc' = StageAfter("MkTemp")
    /\ UNCHANGED <<baseExists, tmp, responses, outcome, failedAt, log, init0,
                   modsDest, addonsDest, modpacksDir, manifest>>
    /\ UNCHANGED <<moveVars, updateVars>>

FetchModpack ==
    /\ pc = "FetchModpack"
    /\ \E r \in Responses("modpack") :
          /\ responses' = [responses EXCEPT !.modpack = r]
          /\ tmp' = [tmp EXCEPT !.modpackZip = DownloadFile(r, tmp.modpackZip).file]
          /\ Step("FetchModpack", ~DownloadFile(r, tmp.modpackZip).raised)
    /\ UNCHANGED <<baseExists, tempExists, tempCreated, init0, modsDest,
                   addonsDest, modpacksDir, manifest>>
    /\ UNCHANGED <<moveVars, updateVars>>

ValidateModpack ==
    /\ pc = "ValidateModpack"
    /\ Step("ValidateModpack", IsValidZip(tmp.modpackZip))
    /\ UNCHANGED <<baseExists, tempExists, tempCreated, tmp, responses, init0,
                   modsDest, addonsDest, modpacksDir, manifest>>
    /\ UNCHANGED <<moveVars, updateVars>>

ExtractModpack ==
    /\ pc = "ExtractModpack"
    /\ LET e == ExtractZip(tmp.modpackZip, MakeDirs(tmp.modpackFolder))
       IN /\ tmp' = [tmp EXCEPT !.modpackFolder = e.folder]
          /\ Step("ExtractModpack", ~e.raised)
    /\ UNCHANGED <<baseExists, tempExists, tempCreated, responses, init0,
                   modsDest, addonsDest, modpacksDir, manifest>>
    /\ UNCHANGED <<moveVars, updateVars>>

RelocateModpack ==
    /\ pc = "RelocateModpack"
    /\ \E r \in MoveJarFiles(tmp.modpackFolder, modsDest) :
          /\ tmp' = [tmp EXCEPT !.modpackFolder = r.src]
          /\ modsDest' = r.dst
          /\ modpacksDir' = (modpacksDir \/ r.dst.exists)
          /\ Step("RelocateModpack", ~r.raised)
    /\ UNCHANGED <<baseExists, tempExists, tempCreated, responses, init0,
                   addonsDest, manifest>>
    /\ UNCHANGED <<moveVars, updateVars>>

FetchAddons ==
    /\ pc = "FetchAddons"
    /\ \E r \in Responses("addons") :
          /\ responses' = [responses EXCEPT !.addons = r]
          /\ tmp' = [tmp EXCEPT !.addonsZip = DownloadFile(r, tmp.addonsZip).file]
          /\ Step("FetchAddons", ~DownloadFile(r, tmp.addonsZip).raised)
    /\ UNCHANGED <<baseExists, tempExists, tempCreated, init0, modsDest,
                   addonsDest, modpacksDir, manifest>>
    /\ UNCHANGED <<moveVars, updateVars>>

ValidateAddons ==
    /\ pc = "ValidateAddons"
    /\ Step("ValidateAddons", IsValidZip(tmp.addonsZip))
    /\ UNCHANGED <<baseExists, tempExists, tempCreated, tmp, responses, init0,
                   modsDest, addonsDest, modpacksDir, manifest>>
    /\ UNCHANGED <<moveVars, updateVars>>

ExtractAddons ==
    /\ pc = "ExtractAddons"
    /\ LET e == ExtractZip(tmp.addonsZip, MakeDirs(tmp.addonsFolder))
       IN /\ tmp' = [tmp EXCEPT !.addonsFolder = e.folder]
          /\ Step("ExtractAddons", ~e.raised)
    /\ UNCHANGED <<baseExists, tempExists, tempCreated, responses, init0,
                   modsDest, addonsDest, modpacksDir, manifest>>
    /\ UNCHANGED <<moveVars, updateVars>>

RelocateAddons ==
    /\ pc = "RelocateAddons"
    /\ \E r \in MoveJarFiles(tmp.addonsFolder, addonsDest) :
          /\ tmp' = [tmp EXCEPT !.addonsFolder = r.src]
          /\ addonsDest' = r.dst
          /\ modpacksDir' = (modpacksDir \/ r.dst.exists)
          /\ Step("RelocateAddons", ~r.raised)
    /\ UNCHANGED <<baseExists, tempExists, tempCreated, responses, init0,
                   modsDest, manifest>>
    /\ UNCHANGED <<moveVars, updateVars>>

UpdateManifest ==
    /\ pc = "UpdateManifest"
    /\ LET u == UpdateModpacksJson(manifest, modpacksDir, ModpackKey,
                                   ModpackName, ModLoader, Version)
       IN /\ manifest' = u.file
          /\ Step("UpdateManifest", u.exc = "none")
    /\ UNCHANGED <<baseExists, tempExists, tempCreated, tmp, responses, init0,
                   modsDest, addonsDest, modpacksDir>>
    /\ UNCHANGED <<moveVars, updateVars>>

Cleanup ==
    /\ pc = "Cleanup"
    /\ tempExists' = RemoveTemp(tempExists, outcome)
    /\ tmp' = IF tempExists' THEN tmp ELSE EmptyTmp
    /\ pc' = "Exit"
    /\ UNCHANGED <<baseExists, tempCreated, responses, outcome, failedAt, log,
                   init0, modsDest, addonsDest, modpacksDir, manifest>>
    /\ UNCHANGED <<moveVars, updateVars>>

\* input("Press any key to exit...")
Exit ==
    /\ pc = "Exit"
    /\ pc' = "Done"
    /\ UNCHANGED <<baseExists, tempExists, tempCreated, tmp, responses, outcome,
                   failedAt, log, init0, modsDest, addonsDest, modpacksDir, manifest>>
    /\ UNCHANGED <<moveVars, updateVars>>

Next ==
    \/ CheckPrerequisite
    \/ MkTemp
    \/ FetchModpack
    \/ ValidateModpack
    \/ ExtractModpack
    \/ RelocateModpack
    \/ FetchAddons
    \/ ValidateAddons
    \/ ExtractAddons
    \/ RelocateAddons
    \/ UpdateManifest
    \/ Cleanup
    \/ Exit

Spec == InitMain /\ [][Next]_vars

---------------------------------------------------------------------------
(* move_jar_files called on its own, once, on any source and destination.  *)

MovePool == EntryPool \cup {<<UpperJar>>}

SourceDirs ==
    {NoDir} \cup
    {Extracted(EmptyDir, Zip("new", E, TRUE)) :
        E \in {X \in SUBSET MovePool : Cardinality(X) <= MaxEntries}}

MoveDestStates ==
    {NoDir} \cup
    {[exists |-> TRUE, files |-> [n \in N |-> "old"], dirs |-> EmptyMap] :
        N \in SUBSET {FooJar, Readme}}

MainIdle ==
    /\ pc = "Idle"
    /\ baseExists = TRUE
    /\ modsDest = NoDir
    /\ addonsDest = NoDir
    /\ tempExists = FALSE
    /\ tempCreated = FALSE
    /\ tmp = EmptyTmp
    /\ responses = [modpack |-> NoResponse, addons |-> NoResponse]
    /\ outcome = "none"
    /\ failedAt = "none"
    /\ log = <<>>
    /\ init0 = [modpacksDir |-> modpacksDir, modsDest |-> modsDest,
                addonsDest |-> addonsDest, manifest |-> manifest]

InitMove ==
    /\ modpacksDir = TRUE
    /\ manifest = Absent
    /\ MainIdle
    /\ src \in SourceDirs
    /\ dst \in MoveDestStates
    /\ mv = NoMove
    /\ call = NoCall /\ calls = 0

MoveCall ==
    /\ ~mv.done
    /\ \E r \in MoveJarFiles(src, dst) :
          /\ src' = r.src
          /\ dst' = r.dst
          /\ mv' = [done |-> TRUE, raised |-> r.raised, exc |-> r.exc,
                    src |-> src, dst |-> dst]
    /\ UNCHANGED <<mainVars, updateVars, modpacksDir, manifest>>

NextMove == MoveCall

SpecMove == InitMove /\ [][NextMove]_vars

---------------------------------------------------------------------------
(* update_modpacks_json called on its own, repeatedly, with any entry.     *)

InitUpdate ==
    /\ manifest \in ManifestStates
    /\ modpacksDir \in BOOLEAN
    /\ manifest.kind # "absent" => modpacksDir
    /\ MainIdle
    /\ src = NoDir /\ dst = NoDir /\ mv = NoMove
    /\ call = NoCall /\ calls = 0

UpdateCall ==
    /\ calls < MaxCalls
    /\ \E key \in {ModpackKey, OtherKey}, name \in {ModpackName, OtherName},
          loader \in {ModLoader, OtherLoader}, version \in {Version, OtherVersion} :
          LET u == UpdateModpacksJson(manifest, modpacksDir, key, name, loader, version)
          IN /\ manifest' = u.file
             /\ call' = [done |-> TRUE, key |-> key,
                         rec |-> PackRecord(name, loader, version),
                         before |-> manifest, dirExists |-> modpacksDir,
                         exc |-> u.exc, branch |-> u.branch]
    /\ calls' = calls + 1
    /\ UNCHANGED <<mainVars, moveVars, modpacksDir>>

NextUpdate == UpdateCall

SpecUpdate == InitUpdate /\ [][NextUpdate]_vars

---------------------------------------------------------------------------
(* Vocabulary of the properties.                                           *)

\* The file holds a JSON object whose "packs" member is a JSON object.
HasPacksMapping(file) ==
    /\ file.kind = "json"
    /\ file.doc.t = "object"
    /\ "packs" \in DOMAIN file.doc.members
    /\ file.doc.members["packs"].t = "object"

PacksMap(file) == file.doc.members["packs"].map

HasKey(file, key) == HasPacksMapping(file) /\ key \in DOMAIN PacksMap(file)

HasRecord(file, key, rec) == HasKey(file, key) /\ PacksMap(file)[key] = rec

IsJarName(n) == EndsWith(n, JarSuffix)

\* The child n of directory a is the child n of directory b.
SameChild(a, b, n) ==
    \/ n \in DOMAIN a.files /\ n \in DOMAIN b.files /\ a.files[n] = b.files[n]
    \/ n \in DOMAIN a.dirs /\ n \in DOMAIN b.dirs /\ a.dirs[n] = b.dirs[n]

---------------------------------------------------------------------------
(* update_modpacks_json (SpecUpdate).                                      *)

\* C1: when the 'packs' mapping of the manifest already holds the pack key,
\* a call of update_modpacks_json returns normally and leaves the record
\* under that key, and the set of keys, as they were, whatever name, loader
\* and version it is given.
C1_FirstWriteWins ==
    (call.done /\ HasKey(call.before, call.key)) =>
        /\ call.exc = "none"
        /\ call.branch = "exists"
        /\ HasRecord(manifest, call.key, PacksMap(call.before)[call.key])
        /\ DOMAIN PacksMap(manifest) = DOMAIN PacksMap(call.before)

\* A second call, with another name, loader and version than the record
\* stored under the key, has returned.
C1_Witness ==
    /\ calls = 2
    /\ call.done
    /\ HasKey(call.before, call.key)
    /\ call.before.fmt = "indent4"
    /\ PacksMap(call.before)[call.key] # call.rec
    /\ call.rec = PackRecord(OtherName, OtherLoader, OtherVersion)

\* C2: for every call where the manifest file is absent or its contents are
\* corrupt (bytes that are not UTF-8, or text that is not JSON), the call
\* returns without raising and the file afterwards is a JSON object whose
\* 'packs' mapping holds the given record under the given key.
C2_RecoversFromCorruptOrMissing ==
    (call.done /\ call.before.kind \in {"absent", "bytes", "text"}) =>
        /\ call.exc = "none"
        /\ HasRecord(manifest, call.key, call.rec)

---------------------------------------------------------------------------
(* move_jar_files (SpecMove).                                              *)

\* C4: when a .jar child of the source has the name of a child of the
\* destination, move_jar_files does not fail, the destination afterwards
\* holds the moved file under that name and the source no longer holds it.
C4_LastMoveWins ==
    (mv.done /\ \E n \in ListDir(mv.src) \cap ListDir(mv.dst) : IsJarName(n)) =>
        /\ ~mv.raised
        /\ \A n \in ListDir(mv.src) :
              IsJarName(n) => n \notin ListDir(src) /\ SameChild(dst, mv.src, n)

\* What C9 says of every call that returned, but for the existence of the
\* destination: every .jar child of the source is in the destination, every
\* other child is still in the source, nothing else reached the destination
\* and nothing it held changed.
MovedExactlyTheJars ==
    /\ \A n \in ListDir(mv.src) :
          IF IsJarName(n)
          THEN n \notin ListDir(src) /\ SameChild(dst, mv.src, n)
          ELSE SameChild(src, mv.src, n) /\ n \notin ListDir(dst) \ ListDir(mv.dst)
    /\ ListDir(src) \subseteq ListDir(mv.src)
    /\ ListDir(dst) \subseteq ListDir(mv.dst) \cup ListDir(mv.src)
    /\ \A n \in ListDir(mv.dst) : SameChild(dst, mv.dst, n)

\* With no .jar child the call returns, and changes nothing.
ZeroMatchesIsNoError ==
    (mv.done /\ mv.src.exists /\ ~\E n \in ListDir(mv.src) : IsJarName(n)) =>
        ~mv.raised /\ src = mv.src /\ dst = mv.dst

\* C9 as stated: after move_jar_files returns for an existing source, the
\* destination directory exists, holds every .jar child of the source, the
\* source keeps every other child, and zero matches is not an error.
C9_Original ==
    /\ (mv.done /\ mv.src.exists /\ ~mv.raised) => dst.exists /\ MovedExactlyTheJars
    /\ ZeroMatchesIsNoError

\* C9 amended: the destination directory exists after the call when the
\* source had at least one .jar child (with none the call returns before
\* creating it); the rest as stated.
C9_Relocator ==
    /\ (mv.done /\ mv.src.exists /\ ~mv.raised) =>
          /\ (\E n \in ListDir(mv.src) : IsJarName(n)) => dst.exists
          /\ MovedExactlyTheJars
    /\ ZeroMatchesIsNoError

\* A call that moved a .jar into a destination it had to create, and left a
\* file that is no .jar and a subdirectory holding a .jar behind.
C9_Witness ==
    /\ mv.done /\ ~mv.raised
    /\ ~mv.dst.exists /\ dst.exists
    /\ ListDir(mv.src) = {BarJar, ModsDir}
    /\ ListDir(dst) = {BarJar}
    /\ ListDir(src) = {ModsDir}
    /\ FooJar \in DOMAIN src.dirs[ModsDir]

---------------------------------------------------------------------------
(* main() (Spec).                                                          *)

TheRecord == PackRecord(ModpackName, ModLoader, Version)

\* The stages that come before the manifest update.
PipelineStages == SubSeq(Stages, 1, Len(Stages) - 1)

InPipeline(stage) == \E i \in DOMAIN PipelineStages : PipelineStages[i] = stage

Started(stage) == \E i \in DOMAIN log : log[i] = stage

DestsUntouched == modsDest = init0.modsDest /\ addonsDest = init0.addonsDest

\* Both URLs served a valid ZIP whose single entry is mods/foo.jar, and the
\* run came to its end.
NestedJarRun ==
    /\ pc = "Exit"
    /\ baseExists
    /\ responses.modpack =
          [status |-> "ok", body |-> Zip("modpack", {<<ModsDir, FooJar>>}, TRUE)]
    /\ responses.addons =
          [status |-> "ok", body |-> Zip("addons", {<<ModsDir, FooJar>>}, TRUE)]

\* C3 as stated: in such a run foo.jar ends in the mods destination and the
\* manifest holds christmas2024 = {Christmas 2024, 1.21.1, fabric}.
C3_Original ==
    NestedJarRun =>
        /\ FooJar \in DOMAIN modsDest.files
        /\ HasRecord(manifest, ModpackKey, TheRecord)

\* C3 amended: in such a run no file is moved (foo.jar lies in the
\* subdirectory mods of the extracted tree, and only immediate children are
\* relocated), so both destinations are as they were; and when the modpacks
\* directory exists and the manifest is absent or holds a 'packs' mapping
\* without the key, the run ends in success with the manifest holding
\* christmas2024 = {Christmas 2024, 1.21.1, fabric}.
C3_NestedJarStays ==
    NestedJarRun =>
        /\ DestsUntouched
        /\ ( /\ init0.modpacksDir
             /\ \/ init0.manifest.kind = "absent"
                \/ /\ HasPacksMapping(init0.manifest)
                   /\ ~HasKey(init0.manifest, ModpackKey) )
           => outcome = "success" /\ HasRecord(manifest, ModpackKey, TheRecord)

\* Such a run on an installation with an empty mods destination and no
\* manifest: it succeeded, the entry is there, foo.jar is not.
C3_Witness ==
    /\ NestedJarRun
    /\ init0.manifest.kind = "absent"
    /\ init0.modsDest = EmptyDir
    /\ outcome = "success"
    /\ HasRecord(manifest, ModpackKey, TheRecord)
    /\ FooJar \notin ListDir(modsDest)

\* C5: once a stage has failed no later stage is started and nothing more
\* is downloaded, moved or written: the run goes to cleanup and ends as a
\* failure.  When the first URL answers 404, nothing is extracted or moved
\* and the manifest is as it was.
C5_FailureAborts ==
    /\ [][failedAt # "none" =>
            /\ log' = log
            /\ failedAt' = failedAt
            /\ responses' = responses
            /\ modsDest' = modsDest
            /\ addonsDest' = addonsDest
            /\ manifest' = manifest
            /\ outcome' = "failure"
            /\ pc' \in {"Exit", "Done"}]_vars
    /\ [](failedAt # "none" =>
            /\ pc \in {"Cleanup", "Exit", "Done"}
            /\ outcome = "failure"
            /\ log[Len(log)] = failedAt)
    /\ [](responses.modpack.status = "http404" =>
            /\ log = <<"FetchModpack">>
            /\ failedAt = "FetchModpack"
            /\ ~tmp.modpackFolder.exists
            /\ DestsUntouched
            /\ manifest = init0.manifest)

\* A run that failed in the addons pipeline, after modpack jars were moved,
\* has ended.
C5_Witness ==
    /\ pc = "Done"
    /\ failedAt = "ExtractAddons"
    /\ modsDest # init0.modsDest
    /\ log = SubSeq(Stages, 1, 7)

\* C6: in every run that created the temporary directory, the directory no
\* longer exists when the run waits for the final key press.
C6_CleanupAlways ==
    (pc \in {"Exit", "Done"} /\ tempCreated) => ~tempExists /\ tmp = EmptyTmp

\* A run that failed while its temporary directory held a downloaded
\* archive has reached the final key press.
C6_Witness ==
    /\ pc = "Exit"
    /\ tempCreated
    /\ failedAt = "ExtractModpack"
    /\ responses.modpack.status = "ok"

\* C7: the manifest file changes only in the manifest stage, entered after
\* the eight stages before it were run without failure; in a run where one
\* of those stages failed the file is what it was before the run.
C7_ManifestOnlyOnSuccess ==
    /\ [][manifest' # manifest =>
            /\ pc = "UpdateManifest"
            /\ failedAt = "none"
            /\ log = PipelineStages]_vars
    /\ [](InPipeline(failedAt) => manifest = init0.manifest)

\* A run whose addons relocation failed after the modpack jars were moved:
\* the manifest is untouched.
C7_Witness ==
    /\ pc = "Exit"
    /\ failedAt = "RelocateAddons"
    /\ modsDest # init0.modsDest
    /\ HasPacksMapping(init0.manifest)
    /\ ~HasKey(init0.manifest, ModpackKey)

\* C8: when the base directory does not exist the run ends without creating
\* a temporary directory, without a request, and without starting a stage,
\* moving a file or touching the manifest.
C8_PrerequisiteGate ==
    ~baseExists =>
        /\ ~tempCreated /\ ~tempExists
        /\ responses = [modpack |-> NoResponse, addons |-> NoResponse]
        /\ log = <<>>
        /\ DestsUntouched
        /\ manifest = init0.manifest
        /\ pc \in {"CheckPrerequisite", "Exit", "Done"}
        /\ pc # "CheckPrerequisite" => outcome = "aborted"

\* A run without the base directory has ended.
C8_Witness == ~baseExists /\ pc = "Done" /\ outcome = "aborted"

\* The manifest parsed as JSON and has no top-level 'packs' mapping, and the
\* run reached the manifest stage.
ManifestStageWithoutMapping ==
    /\ pc \in {"Cleanup", "Exit", "Done"}
    /\ Started("UpdateManifest")
    /\ init0.manifest.kind = "json"
    /\ ~HasPacksMapping(init0.manifest)

\* The "packs" member is a JSON array with the pack key among its elements,
\* or a JSON string with the pack key as a substring.
ListsKey(file, key) ==
    /\ file.kind = "json"
    /\ file.doc.t = "object"
    /\ "packs" \in DOMAIN file.doc.members
    /\ LET p == file.doc.members["packs"]
       IN \/ p.t = "array" /\ \E i \in DOMAIN p.elems : p.elems[i] = key
          \/ p.t = "string" /\ IsSubstring(key, p.chars)

RaisedInManifestStage ==
    /\ failedAt = "UpdateManifest"
    /\ outcome = "failure"
    /\ manifest = init0.manifest
    /\ Started("RelocateModpack") /\ Started("RelocateAddons")

\* C10 as stated: whenever the manifest parses as JSON but has no top-level
\* 'packs' mapping, update_modpacks_json raises, the file is unchanged and
\* the run ends as a failure after both relocations.
C10_Original == ManifestStageWithoutMapping => RaisedInManifestStage

\* C10 amended: so it is, except when "packs" is a JSON array holding the
\* pack key as an element or a JSON string containing the pack key: then
\* the call finds the key, rewrites the file with the same document
\* (indent 4) and the run ends in success.
C10_NoPacksMapping ==
    ManifestStageWithoutMapping =>
        IF ListsKey(init0.manifest, ModpackKey)
        THEN /\ outcome = "success"
             /\ failedAt = "none"
             /\ manifest = JsonFile(init0.manifest.doc, "indent4")
        ELSE RaisedInManifestStage

\* A run on the manifest {} in which jars were moved before the manifest
\* stage raised.
C10_Witness ==
    /\ pc = "Exit"
    /\ init0.manifest = JsonFile(ObjectDoc(EmptyMap), "compact")
    /\ failedAt = "UpdateManifest"
    /\ modsDest # init0.modsDest
    /\ addonsDest # init0.addonsDest

===========================================================================
